---- MODULE Spec2Model ----
(***************************************************************************)
(* GithubClient (src/clients/github_client.py): a wrapper around the       *)
(* PyGithub library and the requests library.                              *)
(*                                                                         *)
(* The client is single-threaded and synchronous, so every method is one   *)
(* atomic action.  The remote side (GitHub, reached through PyGithub or    *)
(* through requests) is the environment: each remote call's outcome is     *)
(* chosen nondeterministically among a returned value and the exceptions   *)
(* the call can raise.  `inv` records what the last invocation did: the    *)
(* remote calls it issued, the log entries it emitted, and how it ended.   *)
(***************************************************************************)
EXTENDS Integers, Sequences, FiniteSets, TLC

VARIABLES
    instance,   \* TRUE when the constructor returned a client to the caller
    client,     \* self.client
    repo_name,  \* self.repo_name
    repo,       \* self.repo
    env_repo,   \* os.environ['GITHUB_REPOSITORY']
    inv         \* the last invocation: op, args, calls, logs, raised, value

vars == <<instance, client, repo_name, repo, env_repo, inv>>
self == <<client, repo_name, repo>>

----------------------------------------------------------------------------
(* Bounds of the model *)
MaxPr == 2      \* pull request ids 1..MaxPr
MaxLen == 2     \* longest JSON array a comment listing returns

(* Program constant *)
PatchTimeout == 60

----------------------------------------------------------------------------
(* Python values *)
PyNone == "<None>"          \* Python's None
Omitted == "<omitted>"      \* an argument the caller leaves out
Unset == "<unset>"          \* a string attribute not assigned yet
NoHandle == [unset |-> TRUE] \* an object attribute not assigned yet

IsStr(x) == x \notin {PyNone, Omitted, Unset}

PrIds == 1..MaxPr
ReviewIds == {7}
Bodies == {"LGTM", "needs work"}
EventNames == {"APPROVE", "REQUEST_CHANGES", "COMMENT"}
Events == EventNames \cup {PyNone}
Reasons == {"OUT_OF_DATE", "SUPPRESSED_BY_OTHER_REASON"}
Tokens == {"tok_valid", "tok_invalid"}
RepoNames == {"o/r1", "o/r2", "o/missing"}
ExistingRepos == {"o/r1", "o/r2"}
EnvRepos == RepoNames \cup {PyNone}
Shas == {"abc123"}
Filenames == {"a.py"}

(* str.lower() on the event names *)
Lower(s) ==
    CASE s = "APPROVE" -> "approve"
      [] s = "REQUEST_CHANGES" -> "request_changes"
      [] s = "COMMENT" -> "comment"
      [] OTHER -> s

(* Exceptions.  LibErrors come out of PyGithub, ReqErrors out of requests. *)
LibErrors == {"UnknownObjectException", "BadCredentialsException"}
ReqErrors == {"ConnectionError", "Timeout"}
RequestExceptions == ReqErrors \cup {"HTTPError", "JSONDecodeError"}
IsRequestException(e) == e \in RequestExceptions

(* Outcome of one remote call: a returned value or a raised exception *)
Ok(v) == [ok |-> TRUE, res |-> v]
Fail(e) == [ok |-> FALSE, res |-> e]

(* How an invocation ends *)
Returned(calls, logs, v) == [calls |-> calls, logs |-> logs, raised |-> FALSE, value |-> v]
Raised(calls, logs, e) == [calls |-> calls, logs |-> logs, raised |-> TRUE, value |-> e]

(* logging.info / logging.error *)
Info(fn, ctx) == [level |-> "INFO", fn |-> fn, ctx |-> ctx, exc |-> PyNone]
Error(fn, ctx, e) == [level |-> "ERROR", fn |-> fn, ctx |-> ctx, exc |-> e]

Call(fn, args, o) == [fn |-> fn, args |-> args, ok |-> o.ok, res |-> o.res]

NoInv == [op |-> "none", args |-> [x |-> PyNone], calls |-> <<>>, logs |-> <<>>,
          raised |-> FALSE, value |-> PyNone]

Invocation(op, args, r) ==
    [op |-> op, args |-> args, calls |-> r.calls, logs |-> r.logs,
     raised |-> r.raised, value |-> r.value]

----------------------------------------------------------------------------
(* __init__ *)

(* What client.get_repo(name) can do: it resolves an existing repository   *)
(* for a valid token, and raises otherwise.                                *)
GetRepoOutcomes(token, name) ==
    IF ~IsStr(name) THEN {Fail("AssertionError")}
    ELSE IF token # "tok_valid" THEN {Fail("BadCredentialsException")}
    ELSE IF name \notin ExistingRepos THEN {Fail("UnknownObjectException")}
    ELSE {Ok([repo |-> name])} \cup {Fail("ConnectionError")}

(* A constructor that logs the failure of get_repo and carries on *)
ctor_result_swallowing(token, name, o) ==
    LET c == Call("get_repo", [full_name |-> name], o) IN
    IF o.ok
    THEN Returned(<<c>>, <<Info("__init__", [repo_name |-> name])>>, PyNone)
    ELSE Returned(<<c>>, <<Error("__init__", [x |-> PyNone], o.res)>>, PyNone)

ctor_result(token, name, o) ==
    LET c == Call("get_repo", [full_name |-> name], o) IN
    IF o.ok
    THEN Returned(<<c>>, <<Info("__init__", [repo_name |-> name])>>, PyNone)
    ELSE Raised(<<c>>, <<Error("__init__", [x |-> PyNone], o.res)>>, o.res)

Construct ==
    /\ ~instance
    /\ \E token \in Tokens :
       \E o \in GetRepoOutcomes(token, env_repo) :
         LET r == ctor_result(token, env_repo, o) IN
         /\ client' = [token |-> token]
         /\ repo_name' = env_repo
         /\ repo' = IF o.ok THEN o.res ELSE NoHandle
         /\ instance' = ~r.raised
         /\ inv' = Invocation("__init__", [token |-> token], r)
    /\ UNCHANGED env_repo

----------------------------------------------------------------------------
(* The process environment changes under the client: GITHUB_REPOSITORY is  *)
(* set to another value, or unset.                                         *)
SetEnv ==
    /\ \E name \in EnvRepos :
         /\ name # env_repo
         /\ env_repo' = name
    /\ UNCHANGED <<instance, client, repo_name, repo, inv>>

----------------------------------------------------------------------------
(* Library-backed operations *)

PullRequest(pr_id) == [repo |-> repo.repo, pr |-> pr_id]

(* Outcomes of a PyGithub call that would return v *)
LibOutcomes(v) == {Ok(v)} \cup {Fail(e) : e \in LibErrors}

(* Outcomes of the call a method makes on the pull request get_pr gave it: *)
(* when get_pr raised, the call is never made                              *)
NotCalled == Fail("<not called>")
ThenOutcomes(o1, v) == IF o1.ok THEN LibOutcomes(v) ELSE {NotCalled}

(* A get_pr that calls get_pull a second time after a failure *)
get_pr_retrying(pr_id, o) ==
    LET c == Call("get_pull", [repo |-> repo, pr_id |-> pr_id], o) IN
    IF o.ok
    THEN Returned(<<c>>, <<Info("get_pr", [pr_id |-> pr_id])>>, o.res)
    ELSE Raised(<<c, c>>, <<Error("get_pr", [pr_id |-> pr_id], o.res)>>, o.res)

get_pr(pr_id, o) ==
    LET c == Call("get_pull", [repo |-> repo, pr_id |-> pr_id], o) IN
    IF o.ok
    THEN Returned(<<c>>, <<Info("get_pr", [pr_id |-> pr_id])>>, o.res)
    ELSE Raised(<<c>>, <<Error("get_pr", [pr_id |-> pr_id], o.res)>>, o.res)

get_pr_comments(pr_id, o1, o2) ==
    LET g == get_pr(pr_id, o1)
        c == Call("get_issue_comments", [pr |-> g.value], o2)
        ctx == [pr_id |-> pr_id]
    IN  IF g.raised
        THEN Raised(g.calls, g.logs \o <<Error("get_pr_comments", ctx, g.value)>>, g.value)
        ELSE IF ~o2.ok
        THEN Raised(g.calls \o <<c>>, g.logs \o <<Error("get_pr_comments", ctx, o2.res)>>, o2.res)
        ELSE Returned(g.calls \o <<c>>, g.logs \o <<Info("get_pr_comments", ctx)>>, o2.res)

post_comment(pr_id, body, o1, o2) ==
    LET g == get_pr(pr_id, o1)
        c == Call("create_issue_comment", [pr |-> g.value, body |-> body], o2)
        ctx == [pr_id |-> pr_id]
    IN  IF g.raised
        THEN Raised(g.calls, g.logs \o <<Error("post_comment", ctx, g.value)>>, g.value)
        ELSE IF ~o2.ok
        THEN Raised(g.calls \o <<c>>, g.logs \o <<Error("post_comment", ctx, o2.res)>>, o2.res)
        ELSE Returned(g.calls \o <<c>>, g.logs \o <<Info("post_comment", ctx)>>, o2.res)

get_reviews(pr_id, o1, o2) ==
    LET g == get_pr(pr_id, o1)
        c == Call("get_reviews", [pr |-> g.value], o2)
        ctx == [pr_id |-> pr_id]
    IN  IF g.raised
        THEN Raised(g.calls, g.logs \o <<Error("get_reviews", ctx, g.value)>>, g.value)
        ELSE IF ~o2.ok
        THEN Raised(g.calls \o <<c>>, g.logs \o <<Error("get_reviews", ctx, o2.res)>>, o2.res)
        ELSE Returned(g.calls \o <<c>>, g.logs \o <<Info("get_reviews", ctx)>>, o2.res)

(* The except clause of post_review: event.lower() is evaluated as an      *)
(* argument of logging.error, so a non-string event raises AttributeError  *)
(* out of the handler before anything is logged and in place of e.         *)
post_review_except(pr_id, event, calls, logs, e) ==
    IF IsStr(event)
    THEN Raised(calls, logs \o <<Error("post_review", [event |-> Lower(event), pr_id |-> pr_id], e)>>, e)
    ELSE Raised(calls, logs, "AttributeError(lower)")

(* A post_review that hands the lower-cased event to create_review *)
post_review_lowercasing(pr_id, body, event, o1, o2) ==
    LET g == get_pr(pr_id, o1)
        c == Call("create_review", [pr |-> g.value, body |-> body, event |-> Lower(event)], o2)
    IN  IF g.raised
        THEN post_review_except(pr_id, event, g.calls, g.logs, g.value)
        ELSE IF ~o2.ok
        THEN post_review_except(pr_id, event, g.calls \o <<c>>, g.logs, o2.res)
        ELSE IF ~IsStr(event)
        THEN post_review_except(pr_id, event, g.calls \o <<c>>, g.logs, "AttributeError(lower)")
        ELSE Returned(g.calls \o <<c>>,
                      g.logs \o <<Info("post_review", [event |-> Lower(event), pr_id |-> pr_id])>>,
                      o2.res)

post_review(pr_id, body, event, o1, o2) ==
    LET g == get_pr(pr_id, o1)
        c == Call("create_review", [pr |-> g.value, body |-> body, event |-> event], o2)
    IN  IF g.raised
        THEN post_review_except(pr_id, event, g.calls, g.logs, g.value)
        ELSE IF ~o2.ok
        THEN post_review_except(pr_id, event, g.calls \o <<c>>, g.logs, o2.res)
        ELSE IF ~IsStr(event)
        THEN post_review_except(pr_id, event, g.calls \o <<c>>, g.logs, "AttributeError(lower)")
        ELSE Returned(g.calls \o <<c>>,
                      g.logs \o <<Info("post_review", [event |-> Lower(event), pr_id |-> pr_id])>>,
                      o2.res)

(* A commit handle obtained elsewhere, or None.  Reading .files of a       *)
(* handle goes through the library and may fetch; None has no attributes.  *)
NoneObject == [py |-> "None"]
HasAttr(obj, name) == name \in DOMAIN obj
Commits == {[sha |-> s] : s \in Shas} \cup {NoneObject}

FilesOutcomes(commit) ==
    IF ~HasAttr(commit, "sha") THEN {Fail("AttributeError(files)")}
    ELSE LibOutcomes(<<[filename |-> "a.py"]>>)

(* The except clause of get_commit_files: commit.sha is evaluated as an    *)
(* argument of logging.error.                                              *)
get_commit_files_except(commit, calls, e) ==
    IF ~HasAttr(commit, "sha")
    THEN Raised(calls, <<>>, "AttributeError(sha)")
    ELSE Raised(calls, <<Error("get_commit_files", [sha |-> commit.sha], e)>>, e)

get_commit_files(commit, o) ==
    LET calls == IF ~HasAttr(commit, "sha") THEN <<>>
                 ELSE <<Call("commit.files", [commit |-> commit], o)>>
    IN  IF ~o.ok
        THEN get_commit_files_except(commit, calls, o.res)
        ELSE Returned(calls, <<Info("get_commit_files", [sha |-> commit.sha])>>, o.res)

(* repo.get_contents(filename, ref=commit_sha).decoded_content.decode() *)
Contents == {[decodable |-> TRUE, text |-> "print(1)"], [decodable |-> FALSE, text |-> PyNone]}

get_file_content(commit_sha, filename, o) ==
    LET c == Call("get_contents", [repo |-> repo, path |-> filename, ref |-> commit_sha], o)
        ctx == [filename |-> filename, commit_sha |-> commit_sha]
    IN  IF ~o.ok
        THEN Raised(<<c>>, <<Error("get_file_content", ctx, o.res)>>, o.res)
        ELSE IF ~o.res.decodable
        THEN Raised(<<c>>, <<Error("get_file_content", ctx, "UnicodeDecodeError")>>, "UnicodeDecodeError")
        ELSE Returned(<<c>>, <<Info("get_file_content", ctx)>>, o.res.text)

----------------------------------------------------------------------------
(* Raw HTTP operations *)

Statuses == {200, 304, 404, 500}

(* A status check that lets the 4xx statuses through *)
raise_for_status_5xx_only(status) == 500 <= status /\ status < 600

(* Response.raise_for_status(): HTTPError for a 4xx or 5xx status *)
raise_for_status(status) == 400 <= status /\ status < 600

(* f"token {os.getenv('GITHUB_TOKEN')}": the token is read from the        *)
(* environment at each raw call, not taken from the constructor            *)
AuthHeader == [scheme |-> "token", token |-> "os.getenv('GITHUB_TOKEN')"]

(* The JSON a comment listing can carry: an array of objects, or no JSON.  *)
(* The last object lacks the body key.                                     *)
NotJson == [json |-> FALSE]
JsonArray(items) == [json |-> TRUE, items |-> items]
CommentObjects ==
    { [id |-> 11, body |-> "first", user |-> "alice"],
      [id |-> 12, body |-> "second", user |-> "bob"],
      [id |-> 13, user |-> "carol"] }
SeqsUpTo(S, n) == UNION {[1..k -> S] : k \in 0..n}
JsonBodies == {JsonArray(a) : a \in SeqsUpTo(CommentObjects, MaxLen)} \cup {NotJson}
PatchTexts == {"diff --git a/a.py b/a.py", ""}

(* What a raw request can produce: a response that carries one of `bodies` *)
(* (an error status carries GitHub's error body), or a requests exception. *)
ErrorStatuses == {404, 500}
HttpOutcomes(bodies, errBody) ==
    {Ok([status |-> st, body |-> b]) : st \in Statuses \ ErrorStatuses, b \in bodies}
        \cup {Ok([status |-> st, body |-> errBody]) : st \in ErrorStatuses}
        \cup {Fail(e) : e \in ReqErrors}

(* A reshaping that returns the raw objects, extra fields included *)
shape_comments_unprojected(comments) ==
    IF \E i \in 1..Len(comments) :
           "id" \notin DOMAIN comments[i] \/ "body" \notin DOMAIN comments[i]
    THEN Fail("KeyError")
    ELSE Ok(comments)

(* [{"id": comment["id"], "body": comment["body"]} for comment in comments] *)
RECURSIVE shape_comments(_)
shape_comments(comments) ==
    IF comments = <<>> THEN Ok(<<>>)
    ELSE LET comment == Head(comments)
             rest == shape_comments(Tail(comments))
         IN  IF "id" \notin DOMAIN comment \/ "body" \notin DOMAIN comment
             THEN Fail("KeyError")
             ELSE IF ~rest.ok THEN rest
             ELSE Ok(<<[id |-> comment.id, body |-> comment.body]>> \o rest.res)

get_comments(pr_id, o) ==
    LET url == [repo |-> repo_name, path |-> "issues/{pr_id}/comments", pr_id |-> pr_id]
        headers == [Authorization |-> AuthHeader, Accept |-> "Accept: application/vnd.github+json"]
        c == Call("requests.get", [url |-> url, headers |-> headers, timeout |-> PyNone], o)
    IN  IF ~o.ok THEN Raised(<<c>>, <<>>, o.res)
        ELSE IF raise_for_status(o.res.status) THEN Raised(<<c>>, <<>>, "HTTPError")
        ELSE IF ~o.res.body.json THEN Raised(<<c>>, <<>>, "JSONDecodeError")
        ELSE LET r == shape_comments(o.res.body.items) IN
             IF r.ok THEN Returned(<<c>>, <<>>, r.res) ELSE Raised(<<c>>, <<>>, r.res)

(* except requests.RequestException of get_pr_patch: log and re-raise;     *)
(* any other exception leaves the try block unlogged.                      *)
get_pr_patch_except(pr_id, calls, e) ==
    IF IsRequestException(e)
    THEN Raised(calls, <<Error("get_pr_patch", [pr_id |-> pr_id], e)>>, e)
    ELSE Raised(calls, <<>>, e)

(* A get_pr_patch that reads GITHUB_REPOSITORY again when it builds the URL *)
get_pr_patch_from_env(pr_id, o) ==
    LET url == [repo |-> env_repo, path |-> "pulls/{pr_id}", pr_id |-> pr_id]
        headers == [Authorization |-> AuthHeader, Accept |-> "application/vnd.github.v3.diff"]
        c == Call("requests.get", [url |-> url, headers |-> headers, timeout |-> PatchTimeout], o)
    IN  IF ~o.ok THEN get_pr_patch_except(pr_id, <<c>>, o.res)
        ELSE IF raise_for_status(o.res.status) THEN get_pr_patch_except(pr_id, <<c>>, "HTTPError")
        ELSE Returned(<<c>>, <<Info("get_pr_patch", [pr_id |-> pr_id])>>, o.res.body)

get_pr_patch(pr_id, o) ==
    LET url == [repo |-> repo_name, path |-> "pulls/{pr_id}", pr_id |-> pr_id]
        headers == [Authorization |-> AuthHeader, Accept |-> "application/vnd.github.v3.diff"]
        c == Call("requests.get", [url |-> url, headers |-> headers, timeout |-> PatchTimeout], o)
    IN  IF ~o.ok THEN get_pr_patch_except(pr_id, <<c>>, o.res)
        ELSE IF raise_for_status(o.res.status) THEN get_pr_patch_except(pr_id, <<c>>, "HTTPError")
        ELSE Returned(<<c>>, <<Info("get_pr_patch", [pr_id |-> pr_id])>>, o.res.body)

(* A dismiss_review handler that re-raises like the other methods' *)
dismiss_review_except_reraising(pr_id, review_id, calls, e) ==
    Raised(calls, <<Error("dismiss_review", [review_id |-> review_id, pr_id |-> pr_id], e)>>, e)

(* except requests.RequestException of dismiss_review: log and return False *)
dismiss_review_except(pr_id, review_id, calls, e) ==
    IF IsRequestException(e)
    THEN Returned(calls, <<Error("dismiss_review", [review_id |-> review_id, pr_id |-> pr_id], e)>>, FALSE)
    ELSE Raised(calls, <<>>, e)

dismiss_review(pr_id, review_id, reason, o) ==
    LET url == [repo |-> repo_name, path |-> "pulls/{pr_id}/reviews/{review_id}/dismissals",
                pr_id |-> pr_id, review_id |-> review_id]
        payload == [message |-> "This review has been superseded by a newer review.",
                    dismissal_reason |-> reason]
        headers == [Authorization |-> AuthHeader, Accept |-> "application/vnd.github+json",
                    ContentType |-> "application/json"]
        c == Call("requests.post", [url |-> url, headers |-> headers, json |-> payload], o)
    IN  IF ~o.ok THEN dismiss_review_except(pr_id, review_id, <<c>>, o.res)
        ELSE IF raise_for_status(o.res.status)
        THEN dismiss_review_except(pr_id, review_id, <<c>>, "HTTPError")
        ELSE Returned(<<c>>,
                      <<Info("dismiss_review", [review_id |-> review_id, pr_id |-> pr_id, reason |-> reason])>>,
                      TRUE)

----------------------------------------------------------------------------
(* One action per method.  A method can only be called on an instance the  *)
(* constructor returned; no method assigns to self.                        *)

Frame == UNCHANGED <<instance, client, repo_name, repo, env_repo>>

GetPr ==
    /\ instance
    /\ \E pr_id \in PrIds : \E o \in LibOutcomes(PullRequest(pr_id)) :
         inv' = Invocation("get_pr", [pr_id |-> pr_id], get_pr(pr_id, o))
    /\ Frame

GetPrComments ==
    /\ instance
    /\ \E pr_id \in PrIds :
       \E o1 \in LibOutcomes(PullRequest(pr_id)) :
       \E o2 \in ThenOutcomes(o1, [issue_comments_of |-> PullRequest(pr_id)]) :
         inv' = Invocation("get_pr_comments", [pr_id |-> pr_id], get_pr_comments(pr_id, o1, o2))
    /\ Frame

GetComments ==
    /\ instance
    /\ \E pr_id \in PrIds : \E o \in HttpOutcomes(JsonBodies, NotJson) :
         inv' = Invocation("get_comments", [pr_id |-> pr_id], get_comments(pr_id, o))
    /\ Frame

PostComment ==
    /\ instance
    /\ \E pr_id \in PrIds, body \in Bodies :
       \E o1 \in LibOutcomes(PullRequest(pr_id)) :
       \E o2 \in ThenOutcomes(o1, [comment_on |-> PullRequest(pr_id), body |-> body]) :
         inv' = Invocation("post_comment", [pr_id |-> pr_id, body |-> body],
                           post_comment(pr_id, body, o1, o2))
    /\ Frame

GetCommitFiles ==
    /\ instance
    /\ \E commit \in Commits : \E o \in FilesOutcomes(commit) :
         inv' = Invocation("get_commit_files", [commit |-> commit], get_commit_files(commit, o))
    /\ Frame

GetFileContent ==
    /\ instance
    /\ \E commit_sha \in Shas, filename \in Filenames :
       \E o \in UNION {LibOutcomes(c) : c \in Contents} :
         inv' = Invocation("get_file_content", [commit_sha |-> commit_sha, filename |-> filename],
                           get_file_content(commit_sha, filename, o))
    /\ Frame

GetPrPatch ==
    /\ instance
    /\ \E pr_id \in PrIds : \E o \in HttpOutcomes(PatchTexts, "Not Found") :
         inv' = Invocation("get_pr_patch", [pr_id |-> pr_id], get_pr_patch(pr_id, o))
    /\ Frame

GetReviews ==
    /\ instance
    /\ \E pr_id \in PrIds :
       \E o1 \in LibOutcomes(PullRequest(pr_id)) :
       \E o2 \in ThenOutcomes(o1, [reviews_of |-> PullRequest(pr_id)]) :
         inv' = Invocation("get_reviews", [pr_id |-> pr_id], get_reviews(pr_id, o1, o2))
    /\ Frame

(* event="COMMENT" is the default of post_review *)
DefaultEvent(given) == IF given = Omitted THEN "COMMENT" ELSE given

PostReview ==
    /\ instance
    /\ \E pr_id \in PrIds, body \in Bodies, given \in Events \cup {Omitted} :
       LET event == DefaultEvent(given) IN
       \E o1 \in LibOutcomes(PullRequest(pr_id)) :
       \E o2 \in ThenOutcomes(o1, [review_of |-> PullRequest(pr_id), body |-> body, event |-> event]) :
         inv' = Invocation("post_review", [pr_id |-> pr_id, body |-> body, event |-> given],
                           post_review(pr_id, body, event, o1, o2))
    /\ Frame

(* reason="OUT_OF_DATE" is the default of dismiss_review *)
DefaultReason(given) == IF given = Omitted THEN "OUT_OF_DATE" ELSE given

DismissReview ==
    /\ instance
    /\ \E pr_id \in PrIds, review_id \in ReviewIds, given \in Reasons \cup {Omitted} :
       \E o \in HttpOutcomes({"{}"}, "Not Found") :
         inv' = Invocation("dismiss_review",
                           [pr_id |-> pr_id, review_id |-> review_id, reason |-> given],
                           dismiss_review(pr_id, review_id, DefaultReason(given), o))
    /\ Frame

----------------------------------------------------------------------------
Init ==
    /\ instance = FALSE
    /\ client = NoHandle
    /\ repo_name = Unset
    /\ repo = NoHandle
    /\ env_repo \in EnvRepos
    /\ inv = NoInv

Next ==
    \/ Construct
    \/ SetEnv
    \/ GetPr
    \/ GetPrComments
    \/ GetComments
    \/ PostComment
    \/ GetCommitFiles
    \/ GetFileContent
    \/ GetPrPatch
    \/ GetReviews
    \/ PostReview
    \/ DismissReview

Spec == Init /\ [][Next]_vars

----------------------------------------------------------------------------
(* Properties *)

Methods ==
    {"get_pr", "get_pr_comments", "get_comments", "post_comment", "get_commit_files",
     "get_file_content", "get_pr_patch", "get_reviews", "post_review", "dismiss_review"}
PrMethods == {"get_pr_comments", "post_comment", "get_reviews", "post_review"}
RawMethods == {"get_comments", "get_pr_patch", "dismiss_review"}
SingleCallMethods == {"get_pr", "get_comments", "get_file_content", "get_pr_patch", "dismiss_review"}

IsSuccessStatus(st) == st \in 200..299
IsErrorStatus(st) == st \in 400..599

CallsOf(fn) == {i \in DOMAIN inv.calls : inv.calls[i].fn = fn}
ErrorLogs(fn) == {i \in DOMAIN inv.logs : inv.logs[i].level = "ERROR" /\ inv.logs[i].fn = fn}

(* The exceptions the remote calls of the last invocation failed with: the *)
(* ones a call raised, and the HTTP error of an error-status response.     *)
Failures ==
    {inv.calls[i].res : i \in {j \in DOMAIN inv.calls : ~inv.calls[j].ok}}
        \cup {"HTTPError" : i \in {j \in DOMAIN inv.calls :
                  /\ inv.calls[j].ok
                  /\ inv.calls[j].fn \in {"requests.get", "requests.post"}
                  /\ IsErrorStatus(inv.calls[j].res.status)}}

(* The argument the method's log lines name *)
LogContext ==
    IF inv.op = "get_commit_files"
    THEN [sha |-> IF HasAttr(inv.args.commit, "sha") THEN inv.args.commit.sha ELSE PyNone]
    ELSE IF inv.op = "get_file_content" THEN inv.args
    ELSE [pr_id |-> inv.args.pr_id]

(* C1: for every method other than dismiss_review, when a remote call      *)
(* fails with exception E the method raises that same E: it returns no     *)
(* value and raises no other exception in its place.                       *)
C1_FailureRaisedUnchanged ==
    inv.op \in Methods \ {"dismiss_review"} =>
        \A e \in Failures : inv.raised /\ inv.value = e

(* C2: dismiss_review returns true on a 2xx response, false on an HTTP     *)
(* error status, and for every outcome of the request returns a boolean    *)
(* instead of raising.                                                     *)
C2_DismissReturnsBoolean ==
    inv.op = "dismiss_review" =>
        /\ ~inv.raised
        /\ inv.value \in BOOLEAN
        /\ Len(inv.calls) = 1
        /\ LET c == inv.calls[1] IN
           /\ c.ok /\ IsSuccessStatus(c.res.status) => inv.value = TRUE
           /\ c.ok /\ IsErrorStatus(c.res.status) => inv.value = FALSE
           /\ ~c.ok => inv.value = FALSE

C2_Witness ==
    /\ inv.op = "dismiss_review"
    /\ inv.calls[1].ok
    /\ inv.calls[1].res.status = 404
    /\ ~inv.raised
    /\ inv.value = FALSE

(* C3: every failure of a library-backed or raw-GET method leaves an error *)
(* log entry of that method naming its context before the exception        *)
(* reaches the caller.                                                     *)
C3_EveryFailureLogged ==
    inv.op \in Methods \ {"dismiss_review"} /\ inv.raised =>
        \E i \in ErrorLogs(inv.op) : \A k \in DOMAIN LogContext :
            k \in DOMAIN inv.logs[i].ctx /\ inv.logs[i].ctx[k] = LogContext[k]

(* C4: a successful get_comments on a JSON array A returns a sequence R of *)
(* the same length with R[i] = {id: A[i].id, body: A[i].body} and no other *)
(* key, in the order of A.                                                 *)
C4_CommentsReshaped ==
    inv.op = "get_comments" /\ ~inv.raised =>
        LET A == inv.calls[1].res.body.items
            R == inv.value
        IN  /\ Len(R) = Len(A)
            /\ \A i \in 1..Len(A) :
                /\ DOMAIN R[i] = {"id", "body"}
                /\ R[i].id = A[i].id
                /\ R[i].body = A[i].body

C4_Witness ==
    /\ inv.op = "get_comments"
    /\ ~inv.raised
    /\ Len(inv.value) = 2
    /\ inv.value[1].id = 12
    /\ inv.value[2].id = 11
    /\ "user" \in DOMAIN inv.calls[1].res.body.items[1]

(* C5: get_pr_patch returns the response text unchanged on a success       *)
(* status and raises an HTTP error, returning nothing, on an error status. *)
C5_PatchVerbatimOrHttpError ==
    inv.op = "get_pr_patch" /\ inv.calls[1].ok =>
        LET resp == inv.calls[1].res IN
        /\ IsSuccessStatus(resp.status) => ~inv.raised /\ inv.value = resp.body
        /\ IsErrorStatus(resp.status) => inv.raised /\ inv.value = "HTTPError"

C5_Witness ==
    /\ inv.op = "get_pr_patch"
    /\ inv.calls[1].ok
    /\ inv.calls[1].res.status = 404
    /\ inv.calls[1].res.body = "Not Found"
    /\ inv.raised

(* C6: the constructor either returns a client whose repository handle is  *)
(* resolved or raises and returns no client, so no method ever runs on a   *)
(* client without a resolved repository handle.                            *)
C6_NoClientWithoutRepo ==
    /\ instance => repo \in {[repo |-> n] : n \in RepoNames} /\ repo.repo = repo_name
    /\ inv.op = "__init__" /\ ~inv.calls[1].ok =>
           inv.raised /\ inv.value = inv.calls[1].res /\ ~instance
    /\ inv.op \in Methods => instance

C6_Witness ==
    /\ inv.op = "__init__"
    /\ inv.raised
    /\ inv.value = "UnknownObjectException"
    /\ ~instance
    /\ repo = NoHandle

(* C7: post_review hands the caller's body and event (COMMENT when left    *)
(* out) unchanged to create_review on the pull request pr_id, and what it  *)
(* returns is the review handle create_review produced.                    *)
C7_ReviewForwarded ==
    inv.op = "post_review" =>
        LET event == IF inv.args.event = Omitted THEN "COMMENT" ELSE inv.args.event IN
        /\ \A i \in CallsOf("create_review") :
            /\ i = 2
            /\ inv.calls[i].args.pr = [repo |-> repo_name, pr |-> inv.args.pr_id]
            /\ inv.calls[i].args.body = inv.args.body
            /\ inv.calls[i].args.event = event
        /\ ~inv.raised =>
            /\ CallsOf("create_review") = {2}
            /\ inv.calls[2].ok
            /\ inv.value = inv.calls[2].res
        /\ (CallsOf("create_review") = {2} /\ inv.calls[2].ok /\ event \in EventNames)
               => ~inv.raised

C7_Witness ==
    /\ inv.op = "post_review"
    /\ inv.args.event = "APPROVE"
    /\ ~inv.raised
    /\ inv.calls[2].args.event = "APPROVE"
    /\ inv.value.event = "APPROVE"

(* C8 as stated: every invocation of every method issues exactly one       *)
(* remote call.                                                            *)
C8_ExactlyOneRemoteCall ==
    inv.op \in Methods => Len(inv.calls) = 1

(* C8 amended: an invocation issues at most two remote calls and never     *)
(* calls again after a failure.  get_pr, get_comments, get_file_content,   *)
(* get_pr_patch and dismiss_review issue exactly one; get_commit_files     *)
(* issues at most one, the read of commit.files; the four methods that     *)
(* resolve the pull request call get_pull and, only when it succeeded, one *)
(* further library call.                                                   *)
SecondCall(op) ==
    CASE op = "get_pr_comments" -> "get_issue_comments"
      [] op = "post_comment" -> "create_issue_comment"
      [] op = "get_reviews" -> "get_reviews"
      [] op = "post_review" -> "create_review"

C8_CallsPerInvocation ==
    inv.op \in Methods =>
        /\ Len(inv.calls) <= 2
        /\ \A i \in DOMAIN inv.calls : ~inv.calls[i].ok => i = Len(inv.calls)
        /\ inv.op \in SingleCallMethods => Len(inv.calls) = 1
        /\ inv.op = "get_commit_files" =>
               /\ Len(inv.calls) <= 1
               /\ \A i \in DOMAIN inv.calls : inv.calls[i].fn = "commit.files"
        /\ inv.op \in PrMethods =>
               /\ inv.calls[1].fn = "get_pull"
               /\ IF inv.calls[1].ok
                  THEN Len(inv.calls) = 2 /\ inv.calls[2].fn = SecondCall(inv.op)
                  ELSE Len(inv.calls) = 1

C8_Witness ==
    /\ inv.op = "post_comment"
    /\ Len(inv.calls) = 2
    /\ inv.calls[1].fn = "get_pull"
    /\ inv.calls[2].fn = "create_issue_comment"
    /\ ~inv.raised

(* C9: once the constructor has returned, no method changes self.client,   *)
(* self.repo_name or self.repo, and every raw HTTP call addresses the      *)
(* repository named at construction, the one the repository handle is for, *)
(* whatever GITHUB_REPOSITORY has become since.                            *)
RawCallsUseConstructedRepo ==
    inv.op \in RawMethods =>
        /\ inv.calls[1].args.url.repo = repo_name
        /\ repo.repo = repo_name

C9_SelfFixedAfterConstruction ==
    /\ [][instance => instance' /\ self' = self]_vars
    /\ []RawCallsUseConstructedRepo

C9_Witness ==
    /\ instance
    /\ inv.op = "get_pr_patch"
    /\ env_repo # repo_name
    /\ inv.calls[1].args.url.repo = repo_name

(* C10: post_comment and post_review make the mutating call only after     *)
(* get_pr succeeded for the same pr_id; when get_pr fails nothing is       *)
(* created, the failure is propagated, and it is logged once by get_pr and *)
(* once more by the outer method.                                          *)
C10_MutationOnlyAfterGetPr ==
    inv.op \in {"post_comment", "post_review"} =>
        /\ inv.calls[1].fn = "get_pull"
        /\ inv.calls[1].args.pr_id = inv.args.pr_id
        /\ \A i \in CallsOf(SecondCall(inv.op)) : i = 2 /\ inv.calls[1].ok
        /\ ~inv.calls[1].ok =>
               /\ Len(inv.calls) = 1
               /\ inv.raised
               /\ inv.value = inv.calls[1].res
               /\ Len(inv.logs) = 2
               /\ ErrorLogs("get_pr") = {1}
               /\ ErrorLogs(inv.op) = {2}
====
